---- MODULE Spec2Model ----
(***************************************************************************)
(* A model of react-native-swipeable-item (src/src/index.tsx): the swipe   *)
(* position state machine of one SwipeableItem row.                        *)
(*                                                                         *)
(* JavaScript numbers are modelled as integers extended with the three     *)
(* IEEE values the code can produce: Infinity, -Infinity and NaN.  The     *)
(* only division of the release resolution (velocityX / swipeDamping) is   *)
(* kept exact by comparing distances scaled by swipeDamping.               *)
(***************************************************************************)
EXTENDS Integers, Sequences, FiniteSets, TLC

\* ------------------------------------------------------------------ bounds
\* Largest |translationX| a drag event carries, in steps of DragStep.
MaxTrans == 5
\* Number of operations of a behaviour: gestures begun plus imperative
\* open/close calls made.
MaxOps == 2

\* ------------------------------------------------- JavaScript number values
\* The IEEE value Infinity (the reduce seed of onEnd, and what
\* Math.max() of no arguments is the negation of).
Infinity == 1000000
\* The IEEE value NaN (Infinity - Infinity).
NaN == Infinity + Infinity
\* Number.MAX_VALUE: finite, above every translation.
MAX_VALUE == 999999
\* The value of a parameter that was not passed.
Undefined == NaN + 1

IsFinite(x) == x # NaN /\ x # Infinity /\ x # -Infinity

\* a + b
Plus(a, b) ==
    IF a = NaN \/ b = NaN THEN NaN
    ELSE IF a = Infinity THEN (IF b = -Infinity THEN NaN ELSE Infinity)
    ELSE IF a = -Infinity THEN (IF b = Infinity THEN NaN ELSE -Infinity)
    ELSE IF ~IsFinite(b) THEN b
    ELSE a + b

\* -1 * a
Negate(a) == IF a = NaN THEN NaN ELSE -a

\* a - b
Minus(a, b) == Plus(a, Negate(b))

\* Math.abs(a)
MathAbs(a) == IF a = NaN THEN NaN ELSE IF a < 0 THEN -a ELSE a

\* a < b
Less(a, b) == a # NaN /\ b # NaN /\ a < b

\* a === b
StrictEq(a, b) == a # NaN /\ b # NaN /\ a = b

\* Math.max(a, b)
MathMax(a, b) == IF a = NaN \/ b = NaN THEN NaN ELSE IF a < b THEN b ELSE a

\* Math.min(a, b)
MathMin(a, b) == IF a = NaN \/ b = NaN THEN NaN ELSE IF a < b THEN a ELSE b

\* Math.max(...s): -Infinity when s is empty.
RECURSIVE MathMaxOf(_)
MathMaxOf(s) ==
    IF s = <<>> THEN -Infinity
    ELSE MathMax(Head(s), MathMaxOf(Tail(s)))

\* x || 0: 0 when x is falsy (0 or NaN), x otherwise.
OrZero(x) == IF x = 0 \/ x = NaN THEN 0 ELSE x

\* snapPoint ?? dflt
Nullish(snapPoint, dflt) == IF snapPoint = Undefined THEN dflt ELSE snapPoint

\* Math.abs(a / b) as the fraction <<numerator, denominator>>.
AbsDiv(a, b) ==
    IF a = NaN \/ b = NaN THEN <<NaN, 1>>
    ELSE IF ~IsFinite(a) THEN (IF IsFinite(b) THEN <<Infinity, 1>> ELSE <<NaN, 1>>)
    ELSE IF ~IsFinite(b) THEN <<0, 1>>
    ELSE IF b = 0 THEN (IF a = 0 THEN <<NaN, 1>> ELSE <<Infinity, 1>>)
    ELSE <<MathAbs(a), MathAbs(b)>>

\* ----------------------------------------------------------- configuration
LEFT == "left"
RIGHT == "right"
NONE == "none"
OpenDirection == {LEFT, RIGHT, NONE}

\* The defaults of the props activationThreshold, overSwipe and swipeDamping.
DefaultActivationThreshold == 20
DefaultOverSwipe == 20
DefaultSwipeDamping == 10

\* Offsets are sampled on a grid of Pixel points; drag translations are
\* multiples of DragStep, and a spring frame advances the offset by DragStep
\* or, if it is nearer, to the spring's target.
Pixel == DefaultOverSwipe
DragStep == 2 * Pixel

\* The snap point lists a row is configured with (positive distances).
SnapListsLeft == {<<>>, <<80>>}
SnapListsRight == {<<>>, <<80, 160>>}
OverSwipes == {0, DefaultOverSwipe}
\* Every translation of Translations other than 0 lies beyond any threshold
\* below DragStep, so one threshold stands for all of them.
ActivationThresholds == {DefaultActivationThreshold}
SwipeDampings == {DefaultSwipeDamping}

\* The configurations explored: every combination of the snap point lists
\* with the default overSwipe, and the right-only row without overSwipe as
\* well.
Props ==
    {p \in [snapPointsLeft : SnapListsLeft, snapPointsRight : SnapListsRight,
            overSwipe : OverSwipes, activationThreshold : ActivationThresholds,
            swipeDamping : SwipeDampings] :
        \/ p.overSwipe = DefaultOverSwipe
        \/ /\ p.snapPointsLeft = <<>>
           /\ p.snapPointsRight # <<>>}

Translations == {k * DragStep : k \in (-MaxTrans) .. MaxTrans}
\* Release velocities, in points per second.
Velocities == {-500, 0, 500}
\* The snapPoint argument of an imperative open: not passed, or a distance.
SnapArgs == {Undefined, 80}

VARIABLES
    props,            \* the row's configuration
    animStatePos,     \* animStatePos.value
    isGestureActive,  \* isGestureActive.value
    startX,           \* ctx.startX of the gesture handler
    openDirection,    \* the React state openDirection
    animation,        \* the spring animation attached to animStatePos
    jsQueue,          \* runOnJS calls not yet run by the JS thread
    promises,         \* the promises returned by openLeft/openRight/close
    releases,         \* the gesture ends so far
    dragFromClosed,   \* the row was closed and at rest when the gesture began
    dragOffset,       \* the offset the gesture in progress found or last wrote
    event             \* the handler that ran last, with its inputs

vars ==
    <<props, animStatePos, isGestureActive, startX, openDirection, animation,
      jsQueue, promises, releases, dragFromClosed, dragOffset, event>>

\* ----------------------------------------------------------- Snap Catalog
maxSnapPointLeftOf(p) == Negate(OrZero(MathMaxOf(p.snapPointsLeft)))
maxSnapPointRightOf(p) == OrZero(MathMaxOf(p.snapPointsRight))

maxSnapPointLeft == maxSnapPointLeftOf(props)
maxSnapPointRight == maxSnapPointRightOf(props)

maxTranslateLeft == Minus(maxSnapPointLeft, props.overSwipe)
maxTranslateRight == Plus(maxSnapPointRight, props.overSwipe)

swipingLeft == Less(animStatePos, 0)
swipingRight == Less(0, animStatePos)

percentOpenLeft ==
    IF swipingLeft THEN AbsDiv(animStatePos, maxSnapPointLeft) ELSE <<0, 1>>
percentOpenRight ==
    IF swipingRight THEN AbsDiv(animStatePos, maxSnapPointRight) ELSE <<0, 1>>

hasLeft == Len(props.snapPointsLeft) # 0
hasRight == Len(props.snapPointsRight) # 0

activeOffsetL ==
    IF hasLeft \/ openDirection = RIGHT
    THEN -props.activationThreshold ELSE -MAX_VALUE
activeOffsetR ==
    IF hasRight \/ openDirection = LEFT
    THEN props.activationThreshold ELSE MAX_VALUE

\* ------------------------------------------------------ release resolution
\* snapPointsLeft.map((p) => p * -1)
RECURSIVE NegateAll(_)
NegateAll(s) ==
    IF s = <<>> THEN <<>> ELSE <<Negate(Head(s))>> \o NegateAll(Tail(s))

\* allSnapPoints without the push of 0.
allSnapPointsBeforePush(p) == NegateAll(p.snapPointsLeft) \o p.snapPointsRight

\* allSnapPoints of onEnd, after the push of 0.
allSnapPointsOf(p) ==
    Append(NegateAll(p.snapPointsLeft) \o p.snapPointsRight, 0)

\* Math.abs(velocityModifiedPosition - s), times swipeDamping, where
\* velocityModifiedPosition = pos + velocityX / swipeDamping.
ScaledDiff(pos, velocityX, swipeDamping, s) ==
    IF IsFinite(pos) /\ IsFinite(s)
    THEN MathAbs(pos * swipeDamping + velocityX - s * swipeDamping)
    ELSE MathAbs(Minus(pos, s))

\* The callback of the reduce: diff < prevDiff ? cur : acc.
Closer(acc, cur, pos, velocityX, swipeDamping) ==
    IF Less(ScaledDiff(pos, velocityX, swipeDamping, cur),
            ScaledDiff(pos, velocityX, swipeDamping, acc))
    THEN cur ELSE acc

RECURSIVE Reduce(_, _, _, _, _)
Reduce(s, acc, pos, velocityX, swipeDamping) ==
    IF s = <<>> THEN acc
    ELSE Reduce(Tail(s), Closer(acc, Head(s), pos, velocityX, swipeDamping),
                pos, velocityX, swipeDamping)

\* closestSnapPoint of onEnd.
closestSnapPointOf(p, pos, velocityX) ==
    Reduce(allSnapPointsOf(p), Infinity, pos, velocityX, p.swipeDamping)

\* The direction onComplete reports for a target.
DirectionOf(closestSnapPoint) ==
    IF StrictEq(closestSnapPoint, 0) THEN NONE
    ELSE IF Less(0, closestSnapPoint) THEN RIGHT
    ELSE LEFT

\* ------------------------------------------------- animations and runOnJS
NoAnimation ==
    [running |-> FALSE, toValue |-> 0, cb |-> "none", id |-> 0, arg |-> 0]

\* runOnJS(resolvePromiseIfFinished)(isFinished) of call number id.
ResolveMsg(id, isFinished) ==
    [fn |-> "resolvePromiseIfFinished", id |-> id, isFinished |-> isFinished,
     open |-> NONE, snapPoint |-> 0]

\* onComplete of release number id: runOnJS(onAnimationEnd)(direction, |target|).
onComplete(closestSnapPoint, id) ==
    [fn |-> "onAnimationEnd", id |-> id, isFinished |-> TRUE,
     open |-> DirectionOf(closestSnapPoint),
     snapPoint |-> MathAbs(closestSnapPoint)]

\* What the completion callback of animation a hands to the JS thread when
\* the spring calls it with isFinished.
Callback(a, isFinished) ==
    IF ~a.running THEN <<>>
    ELSE IF a.cb = "promise" THEN <<ResolveMsg(a.id, isFinished)>>
    ELSE <<onComplete(a.toValue, a.id)>>

\* The records of the calls and of the releases once animation a has ended.
PromisesAfter(a, how) ==
    IF a.running /\ a.cb = "promise"
    THEN [promises EXCEPT ![a.id].status = how] ELSE promises
ReleasesAfter(a, how) ==
    IF a.running /\ a.cb = "release"
    THEN [releases EXCEPT ![a.id].status = how] ELSE releases

\* A direction that was not passed, or the direction of no underlay.
NoDirection == "undefined"

\* Gestures begun plus imperative calls made.
OpsBegun ==
    Len(promises) + Len(releases) + (IF isGestureActive THEN 1 ELSE 0)

\* No gesture is active, no spring is in flight and the JS thread is idle.
AtRest == ~isGestureActive /\ ~animation.running /\ jsQueue = <<>>

\* Where an imperative call finds the row: its offset and openDirection
\* when the row is at rest, <<>> when it is moving.
Origin == IF AtRest THEN <<animStatePos, openDirection>> ELSE <<>>

TypeOK ==
    /\ props \in Props
    /\ isGestureActive \in BOOLEAN
    /\ openDirection \in OpenDirection
    /\ animation.running \in BOOLEAN
    /\ Len(promises) + Len(releases) <= MaxOps

Init ==
    /\ props \in Props
    /\ animStatePos = 0
    /\ isGestureActive = FALSE
    /\ startX = 0
    /\ openDirection = NONE
    /\ animation = NoAnimation
    /\ jsQueue = <<>>
    /\ promises = <<>>
    /\ releases = <<>>
    /\ dragFromClosed = FALSE
    /\ dragOffset = 0
    /\ event = [op |-> "init"]

\* ------------------------------------------------------- imperative calls
\* animStatePos.value = withSpring(toValue, springConfig, callback) inside
\* new Promise: the spring in flight, if any, is interrupted and its callback
\* is called with isFinished = false.  call tells through which entry point
\* the function was reached, as <<entry point, contextDirection, direction,
\* snapPoint>> with the arguments given there; the animation carries the
\* snapPoint argument to the event of its completion.
AnimateTo(toValue, name, call) ==
    /\ OpsBegun < MaxOps
    /\ animation' = [running |-> TRUE, toValue |-> toValue, cb |-> "promise",
                     id |-> Len(promises) + 1, arg |-> call[4]]
    /\ jsQueue' = jsQueue \o Callback(animation, FALSE)
    /\ promises' = Append(PromisesAfter(animation, "interrupted"),
                          [name |-> name, op |-> OpsBegun + 1,
                           origin |-> Origin,
                           status |-> "animating", resolved |-> 0])
    /\ releases' = ReleasesAfter(animation, "interrupted")
    /\ dragFromClosed' = FALSE
    /\ event' = [op |-> name, toValue |-> toValue, call |-> call]
    /\ UNCHANGED <<props, animStatePos, isGestureActive, startX,
                   openDirection, dragOffset>>

openLeft(snapPoint, call) ==
    AnimateTo(Nullish(snapPoint, maxSnapPointLeft), "openLeft", call)

openRight(snapPoint, call) ==
    AnimateTo(Nullish(snapPoint, maxSnapPointRight), "openRight", call)

close(call) == AnimateTo(0, "close", call)

\* openLeft, openRight and close called as such: the open and close of the
\* underlay params, openLeft and openRight of the overlay params, ref.close.
Direct(snapPoint) == <<"direct", NoDirection, NoDirection, snapPoint>>

\* ref.open(direction, snapPoint)
RefOpen(direction, snapPoint) ==
    LET call == <<"ref.open", NoDirection, direction, snapPoint>>
    IN  IF direction = LEFT THEN openLeft(snapPoint, call)
        ELSE IF direction = RIGHT THEN openRight(snapPoint, call)
        ELSE close(call)

\* ------------------------------------------------ useSwipeableItemParams
\* underlayContext?.direction: the side of the enclosing underlay, or
\* undefined outside of any underlay.
ContextDirections == {NoDirection, LEFT, RIGHT}
\* The direction argument of open(snapPoint, direction): omitted, or given.
DirectionArgs == {NoDirection, LEFT}

\* direction || contextDirection: every direction string is truthy.
DirectionOr(direction, contextDirection) ==
    IF direction # NoDirection THEN direction ELSE contextDirection

\* open(snapPoint, direction) of useSwipeableItemParams, used inside the
\* underlay of side contextDirection or outside of any underlay.
ParamsOpen(contextDirection, snapPoint, direction) ==
    LET call == <<"useSwipeableItemParams", contextDirection, direction,
                  snapPoint>>
    IN  IF DirectionOr(direction, contextDirection) = LEFT
        THEN openLeft(snapPoint, call)
        ELSE openRight(snapPoint, call)

\* The side whose percent-open value percentOpen of useSwipeableItemParams
\* is.
ParamsPercentOpenSide(contextDirection) ==
    IF contextDirection # NoDirection
    THEN (IF contextDirection = LEFT THEN LEFT ELSE RIGHT)
    ELSE (IF openDirection = LEFT THEN LEFT ELSE RIGHT)

ParamsPercentOpen(contextDirection) ==
    IF ParamsPercentOpenSide(contextDirection) = LEFT
    THEN percentOpenLeft ELSE percentOpenRight

\* ------------------------------------------------------------ the spring
SpringDiverges == ~IsFinite(animStatePos) \/ ~IsFinite(animation.toValue)

\* One frame of the spring: the offset advances toward toValue.  A spring
\* from or to a non-finite value computes NaN (toValue minus the decayed
\* displacement toValue - current), which is never within the rest
\* thresholds of toValue: such a spring ends only by being interrupted.
AnimFrame ==
    /\ animation.running
    /\ ~StrictEq(animStatePos, animation.toValue)
    /\ animStatePos' =
          IF SpringDiverges THEN NaN
          ELSE IF animStatePos < animation.toValue
               THEN MathMin(animStatePos + DragStep, animation.toValue)
               ELSE MathMax(animStatePos - DragStep, animation.toValue)
    /\ animStatePos' # animStatePos
    /\ event' = [op |-> "frame"]
    /\ UNCHANGED <<props, isGestureActive, startX, openDirection, animation,
                   jsQueue, promises, releases, dragFromClosed, dragOffset>>

\* The spring comes to rest at toValue and calls its callback with
\* isFinished = true.
AnimFinish ==
    /\ animation.running
    /\ StrictEq(animStatePos, animation.toValue)
    /\ animStatePos' = animation.toValue
    /\ animation' = NoAnimation
    /\ jsQueue' = jsQueue \o Callback(animation, TRUE)
    /\ promises' = PromisesAfter(animation, "finished")
    /\ releases' = ReleasesAfter(animation, "finished")
    /\ event' = [op |-> "finish", cb |-> animation.cb, id |-> animation.id,
                  arg |-> animation.arg]
    /\ UNCHANGED <<props, isGestureActive, startX, openDirection,
                   dragFromClosed, dragOffset>>

\* ------------------------------------------------------------ the JS thread
\* resolvePromiseIfFinished without its test of isFinished.
resolvePromiseAlways(m) ==
    /\ promises' = [promises EXCEPT ![m.id].resolved = @ + 1]
    /\ event' = [op |-> "resolvePromiseIfFinished", id |-> m.id,
                  isFinished |-> m.isFinished]
    /\ UNCHANGED <<openDirection, releases>>

resolvePromiseIfFinished(m) ==
    /\ promises' = IF m.isFinished
                   THEN [promises EXCEPT ![m.id].resolved = @ + 1]
                   ELSE promises
    /\ event' = [op |-> "resolvePromiseIfFinished", id |-> m.id,
                  isFinished |-> m.isFinished]
    /\ UNCHANGED <<openDirection, releases>>

onAnimationEnd(m) ==
    /\ openDirection' = m.open
    /\ event' = [op |-> "onChange", id |-> m.id, open |-> m.open,
                  snapPoint |-> m.snapPoint]
    /\ releases' = [releases EXCEPT ![m.id].reported = @ + 1]
    /\ UNCHANGED promises

\* The JS thread runs the oldest runOnJS call.
RunOnJS ==
    /\ jsQueue # <<>>
    /\ jsQueue' = Tail(jsQueue)
    /\ IF Head(jsQueue).fn = "onAnimationEnd"
       THEN onAnimationEnd(Head(jsQueue))
       ELSE resolvePromiseIfFinished(Head(jsQueue))
    /\ UNCHANGED <<props, animStatePos, isGestureActive, startX, animation,
                   dragFromClosed, dragOffset>>

\* ------------------------------------------------------ gesture handler
\* The pan gesture activates once translationX leaves activeOffsetX.
Activates(translationX) ==
    Less(translationX, activeOffsetL) \/ Less(activeOffsetR, translationX)

AtRestClosed == AtRest /\ StrictEq(animStatePos, 0) /\ openDirection = NONE

onStart(translationX) ==
    /\ ~isGestureActive
    /\ OpsBegun < MaxOps
    /\ Activates(translationX)
    /\ startX' = animStatePos
    /\ isGestureActive' = TRUE
    /\ dragFromClosed' = AtRestClosed
    /\ dragOffset' = animStatePos
    /\ event' = [op |-> "onStart"]
    /\ UNCHANGED <<props, animStatePos, openDirection, animation, jsQueue,
                   promises, releases>>

\* onActive writing rawVal, without the clamp.
rawValOf(translationX) == Plus(translationX, startX)

\* clampedVal of onActive.
clampedValOf(translationX) ==
    MathMin(MathMax(maxTranslateLeft, Plus(translationX, startX)),
            maxTranslateRight)

\* The assignment to animStatePos.value detaches the spring in flight, if
\* any, whose callback is called with isFinished = false.
onActive(translationX) ==
    /\ isGestureActive
    /\ animStatePos' = clampedValOf(translationX)
    /\ dragOffset' = clampedValOf(translationX)
    /\ animation' = NoAnimation
    /\ jsQueue' = jsQueue \o Callback(animation, FALSE)
    /\ promises' = PromisesAfter(animation, "interrupted")
    /\ releases' = ReleasesAfter(animation, "interrupted")
    /\ event' = [op |-> "onActive", translationX |-> translationX]
    /\ UNCHANGED <<props, isGestureActive, startX, openDirection,
                   dragFromClosed>>

\* ctx.startX is written by onStart before onActive reads it, so its value
\* between two gestures is never read: the model forgets it at onEnd, as
\* it does dragOffset.
onEnd(velocityX) ==
    LET closestSnapPoint == closestSnapPointOf(props, animStatePos, velocityX)
        id == Len(releases) + 1
        atTarget == StrictEq(animStatePos, closestSnapPoint)
        interrupted == ReleasesAfter(animation, "interrupted")
    IN  /\ isGestureActive
        /\ isGestureActive' = FALSE
        /\ releases' = Append(interrupted,
               [status |-> IF atTarget THEN "immediate" ELSE "animating",
                toValue |-> closestSnapPoint, reported |-> 0])
        /\ IF atTarget
           THEN /\ jsQueue' = Append(jsQueue, onComplete(closestSnapPoint, id))
                /\ UNCHANGED <<animation, promises>>
           ELSE /\ animation' = [running |-> TRUE, toValue |-> closestSnapPoint,
                                 cb |-> "release", id |-> id, arg |-> 0]
                /\ jsQueue' = jsQueue \o Callback(animation, FALSE)
                /\ promises' = PromisesAfter(animation, "interrupted")
        /\ event' = [op |-> "onEnd", offset |-> animStatePos,
                     velocityX |-> velocityX, target |-> closestSnapPoint,
                     dragOffset |-> dragOffset]
        /\ startX' = 0
        /\ dragOffset' = 0
        /\ UNCHANGED <<props, animStatePos, openDirection, dragFromClosed>>

Next ==
    \/ \E snapPoint \in SnapArgs : openLeft(snapPoint, Direct(snapPoint))
    \/ \E snapPoint \in SnapArgs : openRight(snapPoint, Direct(snapPoint))
    \/ close(Direct(Undefined))
    \/ \E direction \in OpenDirection, snapPoint \in SnapArgs :
          RefOpen(direction, snapPoint)
    \/ \E contextDirection \in ContextDirections, snapPoint \in SnapArgs,
          direction \in DirectionArgs :
          ParamsOpen(contextDirection, snapPoint, direction)
    \/ AnimFrame
    \/ AnimFinish
    \/ RunOnJS
    \/ \E translationX \in Translations : onStart(translationX)
    \/ \E translationX \in Translations : onActive(translationX)
    \/ \E velocityX \in Velocities : onEnd(velocityX)

Spec == Init /\ [][Next]_vars

\* The UI thread advances a spring in flight on every frame until it rests
\* and calls its callback, and the JS thread runs every runOnJS call handed
\* to it; gestures and imperative calls are the user's and may never come.
FairSpec ==
    /\ Spec
    /\ WF_vars(AnimFrame)
    /\ WF_vars(AnimFinish)
    /\ WF_vars(RunOnJS)

\* ================================================================ claims
\* What the specification's own formulas compute, on plain integers.
Range(s) == {s[i] : i \in 1 .. Len(s)}
SetMax(S) == CHOOSE m \in S : \A x \in S : x <= m
Clamp(x, lo, hi) == IF x < lo THEN lo ELSE IF x > hi THEN hi ELSE x

maxSnapLeft == -SetMax(Range(props.snapPointsLeft) \cup {0})
maxSnapRight == SetMax(Range(props.snapPointsRight) \cup {0})
minOffset == maxSnapLeft - props.overSwipe
maxOffset == maxSnapRight + props.overSwipe

\* allSnapPoints as the specification enumerates it: the negated left
\* points, then the right points, then 0.
Enumeration(p) ==
    [i \in 1 .. (Len(p.snapPointsLeft) + Len(p.snapPointsRight) + 1) |->
        IF i <= Len(p.snapPointsLeft) THEN -p.snapPointsLeft[i]
        ELSE IF i <= Len(p.snapPointsLeft) + Len(p.snapPointsRight)
             THEN p.snapPointsRight[i - Len(p.snapPointsLeft)]
             ELSE 0]

\* |x + v / swipeDamping - s|, times swipeDamping.
Distance(p, x, v, s) ==
    IF IsFinite(x) THEN MathAbs(x * p.swipeDamping + v - s * p.swipeDamping)
    ELSE MathAbs(Minus(x, s))

\* The earliest-enumerated element that no other element is closer than.
Argmin(p, x, v) ==
    LET e == Enumeration(p)
        best(i) == \A j \in DOMAIN e :
                      ~Less(Distance(p, x, v, e[j]), Distance(p, x, v, e[i]))
        first == CHOOSE i \in DOMAIN e :
                    best(i) /\ \A j \in DOMAIN e : best(j) => i <= j
    IN  e[first]

\* The configuration of the specification's release examples.
ExampleProps ==
    [snapPointsLeft |-> <<>>, snapPointsRight |-> <<80, 160>>,
     overSwipe |-> DefaultOverSwipe,
     activationThreshold |-> DefaultActivationThreshold,
     swipeDamping |-> DefaultSwipeDamping]

\* C1: the offset a drag update writes is clamp(translation + startOffset,
\* minOffset, maxOffset), and so lies within [minOffset, maxOffset], for
\* every configuration, those with an empty snap point list included.
C1_ClampInvariant ==
    event.op = "onActive" =>
        /\ minOffset <= animStatePos
        /\ animStatePos <= maxOffset
        /\ animStatePos = Clamp(event.translationX + startX, minOffset, maxOffset)

\* C2: a gesture end at offset x with velocity v targets the element of
\* allSnapPoints nearest to x + v / swipeDamping, the earlier-enumerated one
\* on a tie; with snapPointsRight = [80, 160] and no left points, (60, 0)
\* resolves to 80 and (120, +500) to 160.
C2_ReleaseResolution ==
    /\ event.op = "onEnd" =>
          event.target = Argmin(props, event.offset, event.velocityX)
    /\ closestSnapPointOf(ExampleProps, 60, 0) = 80
    /\ closestSnapPointOf(ExampleProps, 120, 500) = 160

\* C3: maxSnapLeft = -max(snapPointsLeft U {0}) and maxSnapRight =
\* max(snapPointsRight U {0}); an empty list gives 0, so that side's travel
\* bound is exactly -overSwipe (left) or +overSwipe (right).
C3_SnapExtrema ==
    /\ maxSnapPointLeft = maxSnapLeft
    /\ maxSnapPointRight = maxSnapRight
    /\ props.snapPointsLeft = <<>> => maxTranslateLeft = -props.overSwipe
    /\ props.snapPointsRight = <<>> => maxTranslateRight = props.overSwipe

\* C4: close() called on a row at rest at offset 80 with openDirection RIGHT,
\* once its animation has completed naturally, has resolved its promise
\* exactly once and leaves offset 0, openDirection NONE, percentOpenRight 0.
C4_CloseFromOpen ==
    \A i \in 1 .. Len(promises) :
        (/\ promises[i].name = "close"
         /\ promises[i].origin = <<80, RIGHT>>
         /\ promises[i].op = OpsBegun
         /\ promises[i].status = "finished"
         /\ AtRest)
        => /\ promises[i].resolved = 1
           /\ animStatePos = 0
           /\ openDirection = NONE
           /\ percentOpenRight = <<0, 1>>

\* C5: after a sequence of imperative calls alone, once the last-issued
\* animation has settled naturally, every promise the calls returned has
\* been resolved exactly once, the superseded ones included.
C5_NoPromiseLeftPending ==
    (/\ releases = <<>>
     /\ AtRest
     /\ promises # <<>>
     /\ promises[Len(promises)].status = "finished")
    => \A i \in 1 .. Len(promises) : promises[i].resolved = 1

\* C6: a promise is resolved at most once, and only when its own call's
\* animation completed naturally, never when that animation was interrupted
\* by a later call or by a drag update.
C6_ResolvedOnlyOnOwnCompletion ==
    /\ \A i \in 1 .. Len(promises) :
          /\ promises[i].resolved <= 1
          /\ promises[i].resolved = 1 => promises[i].status = "finished"
    /\ \A k \in 1 .. Len(jsQueue) :
          (jsQueue[k].fn = "resolvePromiseIfFinished" /\ jsQueue[k].isFinished)
          => /\ promises[jsQueue[k].id].status = "finished"
             /\ promises[jsQueue[k].id].resolved = 0

\* A call was superseded and stays unresolved while the call that
\* superseded it has been resolved.
C6_Witness ==
    \E i, j \in 1 .. Len(promises) :
        /\ promises[i].status = "interrupted"
        /\ promises[i].resolved = 0
        /\ promises[j].status = "finished"
        /\ promises[j].resolved = 1
        /\ AtRest

\* C7: the settle-completion of a release that had to animate is reported
\* only if its animation completed naturally, never if it was interrupted.
C7_SettleOnlyOnNaturalCompletion ==
    \A r \in 1 .. Len(releases) :
        (releases[r].reported >= 1 /\ releases[r].status # "immediate")
        => releases[r].status = "finished"

\* C8: an onChange report of a release with target t carries open = NONE,
\* RIGHT or LEFT as t is 0, positive or negative, and snapPoint = |t|; so
\* snapPoint is 0 or a configured distance of the reported side, and
\* open = NONE exactly when snapPoint = 0.
C8_ReportMatchesTarget ==
    event.op = "onChange" =>
        LET t == releases[event.id].toValue
        IN  /\ event.open = (IF t = 0 THEN NONE ELSE IF t > 0 THEN RIGHT ELSE LEFT)
            /\ event.snapPoint = (IF t < 0 THEN -t ELSE t)
            /\ event.open = NONE <=> event.snapPoint = 0
            /\ event.open = RIGHT => event.snapPoint \in Range(props.snapPointsRight)
            /\ event.open = LEFT => event.snapPoint \in Range(props.snapPointsLeft)

\* C9: with no left snap points and some right ones, during and after a
\* drag that began on the closed row at rest the offset is never negative.
C9_SideDisabling ==
    (/\ props.snapPointsLeft = <<>>
     /\ props.snapPointsRight # <<>>
     /\ dragFromClosed)
    => IsFinite(animStatePos) /\ animStatePos >= 0

\* Such a drag, having activated to the right, moved left past its start.
C9_Witness ==
    /\ props.snapPointsLeft = <<>>
    /\ props.snapPointsRight # <<>>
    /\ props.overSwipe > 0
    /\ dragFromClosed
    /\ event.op = "onActive"
    /\ event.translationX < 0

\* C10: a row settled open on one side takes the normal activationThreshold
\* toward the other side, even if that side has no snap points.
C10_ReturnToClosedGating ==
    (AtRest /\ IsFinite(animStatePos)) =>
        /\ animStatePos > 0 => activeOffsetL = -props.activationThreshold
        /\ animStatePos < 0 => activeOffsetR = props.activationThreshold

\* C11: once the animation of an imperative openLeft or openRight has
\* completed naturally and the row is at rest, openDirection is the side of
\* the settled offset: LEFT below 0, RIGHT above 0, NONE at 0.
C11_ImperativeSettleNotifies ==
    \A i \in 1 .. Len(promises) :
        (/\ promises[i].name \in {"openLeft", "openRight"}
         /\ promises[i].op = OpsBegun
         /\ promises[i].status = "finished"
         /\ AtRest)
        => openDirection = (IF animStatePos = 0 THEN NONE
                            ELSE IF animStatePos > 0 THEN RIGHT ELSE LEFT)

\* C12: ref.open(direction, snapPoint) starts an animation toward
\* snapPoint if given, else maxSnapLeft, when direction is LEFT, and toward
\* snapPoint if given, else maxSnapRight, for RIGHT and for NONE; close()
\* starts an animation toward 0.
C12_ImperativeTargetMapping ==
    /\ (event.op \in {"openLeft", "openRight", "close"}
         /\ event.call[1] = "ref.open")
        => LET direction == event.call[3]
               snapPoint == event.call[4]
           IN  /\ animation.running
               /\ animation.toValue =
                     IF snapPoint # Undefined THEN snapPoint
                     ELSE IF direction = LEFT THEN maxSnapLeft
                     ELSE maxSnapRight
    /\ (event.op = "close" /\ event.call[1] = "direct")
        => animation.running /\ animation.toValue = 0

\* C13: inside an underlay, open() without a direction and percentOpen of
\* useSwipeableItemParams are those of that underlay's side; outside of any
\* underlay they are those of the side openDirection names (the call leaves
\* openDirection as it found it), so with openDirection LEFT open() opens
\* the left side and percentOpen is percentOpenLeft.
C13_AccessorBinding ==
    /\ \A c \in ContextDirections :
          /\ c # NoDirection => ParamsPercentOpenSide(c) = c
          /\ (c = NoDirection /\ openDirection # NONE)
                => ParamsPercentOpenSide(c) = openDirection
    /\ (/\ event.op \in {"openLeft", "openRight"}
         /\ event.call[1] = "useSwipeableItemParams"
         /\ event.call[3] = NoDirection)
        => LET c == event.call[2]
               side == IF event.op = "openLeft" THEN LEFT ELSE RIGHT
           IN  /\ c # NoDirection => side = c
               /\ (c = NoDirection /\ openDirection # NONE)
                     => side = openDirection

\* Snap point lists that are empty or not, and contain 0 or not.
ListsWithAndWithoutZero == {<<>>, <<0>>, <<80>>, <<0, 80>>, <<80, 160>>}

\* C14: for every configuration, whether either list is empty or not and
\* contains 0 or not, the allSnapPoints a release resolves against contains
\* 0; so does that of the row's own configuration at every gesture end.
C14_ZeroIsASnapPoint ==
    /\ \A l, r \in ListsWithAndWithoutZero :
          0 \in Range(allSnapPointsOf([props EXCEPT !.snapPointsLeft = l,
                                                    !.snapPointsRight = r]))
    /\ 0 \in Range(allSnapPointsOf(props))

\* A release resolved to 0 on a row neither of whose lists contains 0.
C14_Witness ==
    /\ event.op = "onEnd"
    /\ event.target = 0
    /\ 0 \notin Range(props.snapPointsLeft) \cup Range(props.snapPointsRight)

\* C15: no step taken while a gesture is active changes openDirection, not
\* even when the drag began while a release animation was in flight or a
\* settle notification was still queued for the JS thread.
C15_OpenDirectionFrozenDuringGesture ==
    [][isGestureActive => openDirection' = openDirection]_vars

\* C16: between gesture start and gesture end the offset is changed only
\* by drag updates; an imperative open or close made meanwhile does not
\* move it.
C16_DragSupersedesImperative ==
    [][(isGestureActive /\ animStatePos' # animStatePos)
          => event'.op = "onActive"]_vars

\* C17: the offset a gesture end resolves its snap point from is the offset
\* the last drag update of that gesture wrote, or the offset the gesture
\* found at its start if it made no update.
C17_ReleaseSeesFinalDragOffset ==
    event.op = "onEnd" => event.offset = event.dragOffset

\* C18: every gesture end is followed by exactly one settle notification
\* (one run of onAnimationEnd, hence one onChange) for that release: never
\* two, and eventually one, whatever drags and imperative calls come later.
C18_ExactlyOneSettleNotification ==
    /\ [](\A r \in 1 .. Len(releases) : releases[r].reported <= 1)
    /\ \A r \in 1 .. MaxOps :
          [](Len(releases) >= r
               => <>(Len(releases) >= r /\ releases[r].reported = 1))

\* C19: when the animation of openLeft(p), called as such or through
\* ref.open(LEFT, p) with p one of snapPointsLeft, has completed naturally,
\* the offset is -p, percentOpenLeft is positive and percentOpenRight is 0;
\* openLeft() without an argument settles at maxSnapLeft, which is <= 0.
C19_OpenLeftLandsLeft ==
    (/\ event.op = "finish"
     /\ event.cb = "promise"
     /\ promises[event.id].name = "openLeft")
        => LET p == event.arg
           IN  /\ p \in Range(props.snapPointsLeft)
                     => /\ animStatePos = -p
                        /\ percentOpenLeft[1] > 0
                        /\ percentOpenRight = <<0, 1>>
               /\ p = Undefined
                     => animStatePos = maxSnapLeft /\ animStatePos <= 0

\* The row has settled at the target of its latest release.
SettledAtReleaseTarget ==
    /\ ~isGestureActive
    /\ ~animation.running
    /\ releases # <<>>
    /\ animStatePos = releases[Len(releases)].toValue
    /\ animStatePos \in Range(allSnapPointsOf(props))

\* C20: after a gesture end, unless a further gesture or imperative call
\* comes (which would raise OpsBegun), the row eventually has no gesture
\* active, no animation in flight and its offset at the target resolved at
\* that release, a member of allSnapPoints.
C20_SettlingLiveness ==
    \A n \in 1 .. MaxOps :
        [](event.op = "onEnd" /\ OpsBegun = n
             => <>(OpsBegun > n \/ SettledAtReleaseTarget))

====
